---- MODULE Spec2Model ----
(***************************************************************************)
(* Model of the cleanup pipeline of pdf2markdown: text_tidy_up in          *)
(* src/src/main.py, with the token estimator and the cleanup prompt it     *)
(* uses; process_pdf, which drives it; and the functions of TokenEstimator *)
(* in src/src/utils/token_estimator.py.                                    *)
(*                                                                         *)
(* Strings are run-length encoded: a text is a sequence of runs            *)
(* [c |-> character, n |-> count], n >= 1, in which neighbouring runs have *)
(* different characters.  The encoding is one-to-one with character        *)
(* strings, so equality of texts is equality of strings, and documents of  *)
(* tens of thousands of characters (MAX_CHUNK_SIZE is 6000 tokens of 4     *)
(* characters) stay small values.  The letters of the fixed template text  *)
(* are written as runs of "t" of the template's exact length.              *)
(***************************************************************************)
EXTENDS Integers, Sequences, FiniteSets, TLC

VARIABLES
    full_document,          \* argument of text_tidy_up
    pc,                     \* position in text_tidy_up
    prompt_tokens,          \* main.py:112
    paragraphs,             \* main.py:143
    pidx,                   \* position of the for loop of main.py:149
    chunks,                 \* main.py:144
    current_chunk,          \* main.py:145
    current_chunk_tokens,   \* main.py:146
    chunk_paras,            \* history: the paragraph list each closed chunk was joined from
    i,                      \* enumerate index of main.py:172
    processed_chunks,       \* main.py:168
    total_prompt_tokens,    \* main.py:169
    total_actual_tokens,    \* main.py:170
    requests,               \* history: the completion requests issued, in order
    outcomes,               \* history: what each request came back with, in order
    result,                 \* the returned triple, once pc = "done"
    pdf_pc,                 \* position in process_pdf ("none": not called)
    total_pages,            \* main.py:286
    page_number,            \* main.py:295
    page_kind,              \* main.py:298, is_text and extracted_text of the page
    all_pages_data,         \* main.py:289
    total_estimated_tokens, \* main.py:281
    pdf_total_actual_tokens,\* main.py:282, total_actual_tokens of process_pdf
    page_requests,          \* history: the page requests issued, in order
    report,                 \* main.py:334-346, the percentages and the returned pair
    calc                    \* the last call of a function of TokenEstimator

\* the variables of text_tidy_up
tidy_vars == << full_document, pc, prompt_tokens, paragraphs, pidx, chunks,
                current_chunk, current_chunk_tokens, chunk_paras, i,
                processed_chunks, total_prompt_tokens, total_actual_tokens,
                requests, outcomes, result >>

\* the variables of process_pdf
pdf_vars == << pdf_pc, total_pages, page_number, page_kind, all_pages_data,
               total_estimated_tokens, pdf_total_actual_tokens, page_requests,
               report >>

\* what text_tidy_up does not touch
outer_vars == << pdf_vars, calc >>

vars == << tidy_vars, pdf_vars, calc >>

----------------------------------------------------------------------------
(* Program constants *)

MAX_CHUNK_SIZE == 6000

CHARS_PER_TOKEN == 4

(* Bounds of the model *)

\* number of blocks a document is put together from
MaxBlocks == 3

----------------------------------------------------------------------------
(* Strings *)

NL == "\n"

Run(ch, k) == [c |-> ch, n |-> k]

RECURSIVE StrLen(_)
\* len(text)
StrLen(t) == IF t = << >> THEN 0 ELSE Head(t).n + StrLen(Tail(t))

\* s + t
Concat(s, t) ==
    IF s = << >> THEN t
    ELSE IF t = << >> THEN s
    ELSE IF s[Len(s)].c = Head(t).c
         THEN SubSeq(s, 1, Len(s) - 1)
                  \o << Run(Head(t).c, s[Len(s)].n + Head(t).n) >>
                  \o Tail(t)
         ELSE s \o t

\* the paragraph separator '\n\n'
SEP == << Run(NL, 2) >>

RECURSIVE SplitFrom(_, _)
\* text.split('\n\n') scanning left to right, cur being the piece read so far
SplitFrom(t, cur) ==
    IF t = << >> THEN << cur >>
    ELSE LET r == Head(t) IN
         IF r.c = NL /\ r.n >= 2
         THEN << cur >> \o
              SplitFrom(IF r.n = 2 THEN Tail(t)
                        ELSE << Run(NL, r.n - 2) >> \o Tail(t), << >>)
         ELSE SplitFrom(Tail(t), cur \o << r >>)

\* text.split('\n\n')
Split(t) == SplitFrom(t, << >>)

RECURSIVE Join(_)
\* '\n\n'.join(ps)
Join(ps) ==
    IF ps = << >> THEN << >>
    ELSE IF Len(ps) = 1 THEN ps[1]
    ELSE Concat(Concat(ps[1], SEP), Join(Tail(ps)))

----------------------------------------------------------------------------
(* Token estimation and prompts *)

\* main.py: estimate_tokens_from_string
estimate_tokens_from_string(text) == StrLen(text) \div CHARS_PER_TOKEN

\* the fixed lines of the cleanup prompt that precede the document
CleanupPromptHead ==
    << Run(NL, 1), Run("t", 105), Run(NL, 1), Run("t", 63), Run(NL, 1),
       Run("t", 73), Run(NL, 1) >>

\* prompt_templates.py: get_cleanup_prompt
get_cleanup_prompt(document_content) ==
    Concat(Concat(CleanupPromptHead, document_content), << Run(NL, 1) >>)

\* str(e) of main.py:137: the message of the exception, an opaque text of
\* the letter "e"
ErrorMessage == << Run("e", 9) >>

\* mutant of SingleShotFallback: the handler returns the error message alone
SingleShotFallbackWithoutDocument(document) ==
    Concat(<< Run("t", 18) >>, ErrorMessage)

\* main.py:137, the text returned when the single request fails:
\* "Error in tidy up: " + str(e) + "\n\nRaw document content:\n\n" + document
SingleShotFallback(document) ==
    Concat(Concat(Concat(<< Run("t", 18) >>, ErrorMessage),
                  << Run(NL, 2), Run("t", 21), Run(NL, 2) >>),
           document)

----------------------------------------------------------------------------
(* Inputs: the documents text_tidy_up is called with *)

\* the blocks documents are made of: a single newline, a paragraph of 3000
\* tokens, and one of 8000 tokens (over the budget on its own)
Words == { << Run(NL, 1) >>, << Run("b", 12003) >>, << Run("c", 32000) >> }

\* the empty document, and one-paragraph documents around the decision of
\* main.py:119: with the 246 characters of the cleanup prompt, 23757
\* characters are estimated at exactly MAX_CHUNK_SIZE tokens and 23758 at one
\* more; 23755 characters are the longest document of 62 tokens less than
\* MAX_CHUNK_SIZE
BoundaryDocuments ==
    { << >>, << Run("d", 23755) >>, << Run("d", 23757) >>, << Run("d", 23758) >> }

RECURSIVE DocsOf(_)
\* the documents of k blocks with '\n\n' between them; next to a newline
\* block the newlines run together, which gives runs of 3 and 5 newlines,
\* empty paragraphs and paragraphs that begin or end with a newline
DocsOf(k) ==
    IF k = 1 THEN Words
    ELSE { Concat(Concat(d, SEP), w) : d \in DocsOf(k - 1), w \in Words }

Documents == BoundaryDocuments \cup UNION { DocsOf(k) : k \in 1..MaxBlocks }

----------------------------------------------------------------------------
(* The completion service: what client.chat.completions.create comes back
   with.  Either the call raises, or it returns a response object whose
   usage is an object with total_tokens, is None, or is no attribute at
   all, and whose choices[0].message.content is a string, is None, or
   cannot be read (no choices). *)

CleanedText == << Run("x", 40) >>

Response(u, ct) ==
    [kind |-> "response", usage |-> u,
     total_tokens |-> IF u = "int" THEN 50 ELSE 0,
     content |-> ct, text |-> IF ct = "str" THEN CleanedText ELSE << >>]

Raised == [kind |-> "raise", usage |-> "absent", total_tokens |-> 0,
           content |-> "missing", text |-> << >>]

Outcomes ==
    { Raised,
      Response("int", "str"), Response("absent", "str"), Response("none", "str"),
      Response("int", "missing"), Response("int", "none") }

\* main.py:128 and :185,
\* response.usage.total_tokens if hasattr(response, 'usage') else 0
\* (evaluated only when it does not raise, see RaisesAtUsage)
UsageTokens(o) == IF o.usage = "int" THEN o.total_tokens ELSE 0

\* create() raised, or reading .total_tokens of a usage that is None did
RaisesAtUsage(o) == o.kind = "raise" \/ o.usage = "none"

\* response.choices[0].message.content raises
RaisesAtContent(o) == o.content = "missing"

\* an entry of processed_chunks: a string or None
StrEntry(t) == [none |-> FALSE, text |-> t]

NoneEntry == [none |-> TRUE, text |-> << >>]

NoResult == [content |-> << >>, estimated |-> 0, actual |-> 0]

\* process_pdf is not running: text_tidy_up is called on its own
NoDriver ==
    /\ pdf_pc = "none"
    /\ total_pages = 0
    /\ page_number = 0
    /\ page_kind = [is_text |-> FALSE, text |-> << >>]
    /\ all_pages_data = << >>
    /\ total_estimated_tokens = 0
    /\ pdf_total_actual_tokens = 0
    /\ page_requests = << >>
    /\ report = << >>

\* no function of TokenEstimator was called
NoCall == [op |-> "none"]

----------------------------------------------------------------------------
(* text_tidy_up *)

Init ==
    /\ full_document \in Documents
    /\ pc = "start"
    /\ prompt_tokens = 0
    /\ paragraphs = << >>
    /\ pidx = 1
    /\ chunks = << >>
    /\ current_chunk = << >>
    /\ current_chunk_tokens = 0
    /\ chunk_paras = << >>
    /\ i = 1
    /\ processed_chunks = << >>
    /\ total_prompt_tokens = 0
    /\ total_actual_tokens = 0
    /\ requests = << >>
    /\ outcomes = << >>
    /\ result = NoResult
    /\ NoDriver
    /\ calc = NoCall

\* mutant of FitsSingleRequest: the boundary is exclusive
FitsSingleRequestStrict(tokens) == tokens < MAX_CHUNK_SIZE

\* main.py:119
FitsSingleRequest(tokens) == tokens <= MAX_CHUNK_SIZE

\* main.py:112-119 and, on the chunked path, 143-146
Decide ==
    /\ pc = "start"
    /\ prompt_tokens' = estimate_tokens_from_string(get_cleanup_prompt(full_document))
    /\ IF FitsSingleRequest(prompt_tokens')
       THEN /\ pc' = "single_call"
            /\ UNCHANGED << paragraphs, pidx, chunks, current_chunk, current_chunk_tokens >>
       ELSE /\ pc' = "split"
            /\ paragraphs' = Split(full_document)
            /\ pidx' = 1
            /\ chunks' = << >>
            /\ current_chunk' = << >>
            /\ current_chunk_tokens' = 0
    /\ UNCHANGED << full_document, chunk_paras, i, processed_chunks,
                    total_prompt_tokens, total_actual_tokens, requests,
                    outcomes, result >>
    /\ UNCHANGED outer_vars

\* main.py:121-126, the single request is issued
SingleRequest ==
    /\ pc = "single_call"
    /\ requests' = Append(requests,
           [content |-> get_cleanup_prompt(full_document), part |-> 0, of |-> 0])
    /\ pc' = "single_wait"
    /\ UNCHANGED << full_document, prompt_tokens, paragraphs, pidx, chunks,
                    current_chunk, current_chunk_tokens, chunk_paras, i,
                    processed_chunks, total_prompt_tokens, total_actual_tokens,
                    outcomes, result >>
    /\ UNCHANGED outer_vars

\* main.py:128-137: the try block after the call, and its handler.
\* len(content) at line 129 raises for a content of None as well.
SingleResult(o, document, tokens) ==
    IF RaisesAtUsage(o) \/ RaisesAtContent(o) \/ o.content = "none"
    THEN [content |-> SingleShotFallback(document), estimated |-> 0, actual |-> 0]
    ELSE [content |-> o.text, estimated |-> tokens, actual |-> UsageTokens(o)]

SingleResponse ==
    /\ pc = "single_wait"
    /\ \E o \in Outcomes :
         /\ outcomes' = Append(outcomes, o)
         /\ result' = SingleResult(o, full_document, prompt_tokens)
    /\ pc' = "done"
    /\ UNCHANGED << full_document, prompt_tokens, paragraphs, pidx, chunks,
                    current_chunk, current_chunk_tokens, chunk_paras, i,
                    processed_chunks, total_prompt_tokens, total_actual_tokens,
                    requests >>
    /\ UNCHANGED outer_vars

\* mutant of ClosesChunk: a chunk is closed as soon as the budget is reached
ClosesChunkAtBudget(cur, cur_tokens, paragraph_tokens) ==
    cur_tokens + paragraph_tokens >= MAX_CHUNK_SIZE

\* mutant of ClosesChunk: the running sum of the chunk is left out
ClosesChunkIgnoringSum(cur, cur_tokens, paragraph_tokens) ==
    paragraph_tokens > MAX_CHUNK_SIZE

\* main.py:151
ClosesChunk(cur, cur_tokens, paragraph_tokens) ==
    cur_tokens + paragraph_tokens > MAX_CHUNK_SIZE

\* mutant of SplitStep: the new chunk starts empty, the paragraph that did
\* not fit is lost
SplitStepLosingParagraph ==
    /\ pc = "split"
    /\ pidx <= Len(paragraphs)
    /\ LET paragraph == paragraphs[pidx]
           paragraph_tokens == estimate_tokens_from_string(paragraph)
       IN IF current_chunk_tokens + paragraph_tokens > MAX_CHUNK_SIZE
          THEN /\ chunks' = Append(chunks, Join(current_chunk))
               /\ chunk_paras' = Append(chunk_paras, current_chunk)
               /\ current_chunk' = << >>
               /\ current_chunk_tokens' = 0
          ELSE /\ current_chunk' = Append(current_chunk, paragraph)
               /\ current_chunk_tokens' = current_chunk_tokens + paragraph_tokens
               /\ UNCHANGED << chunks, chunk_paras >>
    /\ pidx' = pidx + 1
    /\ UNCHANGED << full_document, pc, prompt_tokens, paragraphs, i,
                    processed_chunks, total_prompt_tokens, total_actual_tokens,
                    requests, outcomes, result >>
    /\ UNCHANGED outer_vars

\* main.py:149-159, one iteration of the loop over the paragraphs
SplitStep ==
    /\ pc = "split"
    /\ pidx <= Len(paragraphs)
    /\ LET paragraph == paragraphs[pidx]
           paragraph_tokens == estimate_tokens_from_string(paragraph)
       IN IF ClosesChunk(current_chunk, current_chunk_tokens, paragraph_tokens)
          THEN /\ chunks' = Append(chunks, Join(current_chunk))
               /\ chunk_paras' = Append(chunk_paras, current_chunk)
               /\ current_chunk' = << paragraph >>
               /\ current_chunk_tokens' = paragraph_tokens
          ELSE /\ current_chunk' = Append(current_chunk, paragraph)
               /\ current_chunk_tokens' = current_chunk_tokens + paragraph_tokens
               /\ UNCHANGED << chunks, chunk_paras >>
    /\ pidx' = pidx + 1
    /\ UNCHANGED << full_document, pc, prompt_tokens, paragraphs, i,
                    processed_chunks, total_prompt_tokens, total_actual_tokens,
                    requests, outcomes, result >>
    /\ UNCHANGED outer_vars

\* main.py:162-170, after the loop: the last chunk, then the totals are set up
SplitFinish ==
    /\ pc = "split"
    /\ pidx > Len(paragraphs)
    /\ IF current_chunk # << >>
       THEN /\ chunks' = Append(chunks, Join(current_chunk))
            /\ chunk_paras' = Append(chunk_paras, current_chunk)
       ELSE UNCHANGED << chunks, chunk_paras >>
    /\ processed_chunks' = << >>
    /\ total_prompt_tokens' = 0
    /\ total_actual_tokens' = 0
    /\ i' = 1
    /\ pc' = "chunk_loop"
    /\ UNCHANGED << full_document, prompt_tokens, paragraphs, pidx,
                    current_chunk, current_chunk_tokens, requests, outcomes,
                    result >>
    /\ UNCHANGED outer_vars

\* mutant of ChunkMessage: the part number counts from 0
ChunkMessageZeroBased(k, cs) ==
    [content |-> get_cleanup_prompt(cs[k]), part |-> k - 1, of |-> Len(cs)]

\* main.py:177-180, the message of the request for chunk k of cs:
\* get_cleanup_prompt(chunk) + "\nThis is part k of N."
ChunkMessage(k, cs) ==
    [content |-> get_cleanup_prompt(cs[k]), part |-> k, of |-> Len(cs)]

\* main.py:172-183, the request for chunk i is issued
ChunkRequest ==
    /\ pc = "chunk_loop"
    /\ i <= Len(chunks)
    /\ requests' = Append(requests, ChunkMessage(i, chunks))
    /\ pc' = "chunk_wait"
    /\ UNCHANGED << full_document, prompt_tokens, paragraphs, pidx, chunks,
                    current_chunk, current_chunk_tokens, chunk_paras, i,
                    processed_chunks, total_prompt_tokens, total_actual_tokens,
                    outcomes, result >>
    /\ UNCHANGED outer_vars

\* mutant of FallbackEntry: the handler of the single request, copied
FallbackEntryWithBanner(chunk) == StrEntry(SingleShotFallback(chunk))

\* main.py:193, the handler's entry for a chunk whose processing raised
FallbackEntry(chunk) == StrEntry(chunk)

\* main.py:186 and :187 have run before the exception when it is raised
\* by line 189
CountedBeforeRaise(o) == ~RaisesAtUsage(o)

\* main.py:185-193, the rest of the try block for chunk i, and its handler
ChunkResponse ==
    /\ pc = "chunk_wait"
    /\ \E o \in Outcomes :
         /\ outcomes' = Append(outcomes, o)
         /\ IF CountedBeforeRaise(o)
            THEN /\ total_actual_tokens' = total_actual_tokens + UsageTokens(o)
                 /\ total_prompt_tokens' =
                        total_prompt_tokens + estimate_tokens_from_string(chunks[i])
            ELSE UNCHANGED << total_actual_tokens, total_prompt_tokens >>
         /\ processed_chunks' = Append(processed_chunks,
                IF RaisesAtUsage(o) \/ RaisesAtContent(o) THEN FallbackEntry(chunks[i])
                ELSE IF o.content = "none" THEN NoneEntry
                ELSE StrEntry(o.text))
    /\ i' = i + 1
    /\ pc' = "chunk_loop"
    /\ UNCHANGED << full_document, prompt_tokens, paragraphs, pidx, chunks,
                    current_chunk, current_chunk_tokens, chunk_paras,
                    requests, result >>
    /\ UNCHANGED outer_vars

\* the strings of a list of entries
EntryTexts(es) == [k \in 1..Len(es) |-> es[k].text]

\* main.py:196, '\n\n'.join(processed_chunks)
final_content(es) == Join(EntryTexts(es))

\* main.py:196-198, after the loop; str.join raises TypeError on a None item,
\* outside every try block
Combine ==
    /\ pc = "chunk_loop"
    /\ i > Len(chunks)
    /\ IF \E k \in 1..Len(processed_chunks) : processed_chunks[k].none
       THEN /\ pc' = "raised"
            /\ UNCHANGED result
       ELSE /\ pc' = "done"
            /\ result' = [content |-> final_content(processed_chunks),
                          estimated |-> total_prompt_tokens,
                          actual |-> total_actual_tokens]
    /\ UNCHANGED << full_document, prompt_tokens, paragraphs, pidx, chunks,
                    current_chunk, current_chunk_tokens, chunk_paras, i,
                    processed_chunks, total_prompt_tokens, total_actual_tokens,
                    requests, outcomes >>
    /\ UNCHANGED outer_vars

Next ==
    \/ Decide
    \/ SingleRequest
    \/ SingleResponse
    \/ SplitStep
    \/ SplitFinish
    \/ ChunkRequest
    \/ ChunkResponse
    \/ Combine

Spec == Init /\ [][Next]_vars

----------------------------------------------------------------------------
(* TokenEstimator, src/src/utils/token_estimator.py, called on its own *)

\* number of tokens up to which the arguments of the calls are drawn
MaxTokenCount == 50

TokenCounts == 0..MaxTokenCount

\* config.py:9-12
IMAGE_TOKEN_BASE == [high |-> 525, standard |-> 150]

\* config.py:13, 1.75 as a fraction
IMAGE_TOKEN_MULTIPLIER == [num |-> 175, den |-> 100]

\* the detail levels the calls are made with, two of them unknown
Details == {"high", "standard", "low", ""}

\* mutant of estimate_image_tokens: the product is rounded to the nearest
\* integer, not cut
estimate_image_tokens_rounded(detail) ==
    LET base_tokens == IF detail \in DOMAIN IMAGE_TOKEN_BASE
                       THEN IMAGE_TOKEN_BASE[detail]
                       ELSE IMAGE_TOKEN_BASE["standard"]
    IN (2 * base_tokens * IMAGE_TOKEN_MULTIPLIER.num + IMAGE_TOKEN_MULTIPLIER.den)
           \div (2 * IMAGE_TOKEN_MULTIPLIER.den)

\* token_estimator.py:31-43, TokenEstimator.estimate_image_tokens; int() cuts
\* the fraction of the (non-negative) product
estimate_image_tokens(detail) ==
    LET base_tokens == IF detail \in DOMAIN IMAGE_TOKEN_BASE
                       THEN IMAGE_TOKEN_BASE[detail]
                       ELSE IMAGE_TOKEN_BASE["standard"]
    IN (base_tokens * IMAGE_TOKEN_MULTIPLIER.num) \div IMAGE_TOKEN_MULTIPLIER.den

\* a float that is the quotient of two integers
Ratio(n, d) == [num |-> n, den |-> d]

\* 0.0 and 0
ZeroPercent == Ratio(0, 1)

\* mutant of calculate_token_difference: the guard is left out
calculate_token_difference_unguarded(estimated, actual) ==
    << Ratio((actual - estimated) * 100, estimated), actual - estimated >>

\* token_estimator.py:60-76, TokenEstimator.calculate_token_difference
calculate_token_difference(estimated, actual) ==
    IF estimated <= 0 THEN << ZeroPercent, 0 >>
    ELSE << Ratio((actual - estimated) * 100, estimated), actual - estimated >>

\* main.py:334 and :341, the percentage of the usage report of process_pdf:
\* ((actual - estimated) / estimated * 100) if estimated > 0 else 0
diff_percent(estimated, actual) ==
    IF estimated > 0 THEN Ratio((actual - estimated) * 100, estimated)
    ELSE ZeroPercent

\* nothing but calc is in use
InitEstimator ==
    /\ full_document = << >>
    /\ pc = "idle"
    /\ prompt_tokens = 0
    /\ paragraphs = << >>
    /\ pidx = 1
    /\ chunks = << >>
    /\ current_chunk = << >>
    /\ current_chunk_tokens = 0
    /\ chunk_paras = << >>
    /\ i = 1
    /\ processed_chunks = << >>
    /\ total_prompt_tokens = 0
    /\ total_actual_tokens = 0
    /\ requests = << >>
    /\ outcomes = << >>
    /\ result = NoResult
    /\ NoDriver
    /\ calc = NoCall

\* a call of TokenEstimator.estimate_image_tokens
EstimateImageTokens ==
    /\ calc = NoCall
    /\ \E detail \in Details :
         calc' = [op |-> "estimate_image_tokens", detail |-> detail,
                  result |-> estimate_image_tokens(detail)]
    /\ UNCHANGED << tidy_vars, pdf_vars >>

\* a call of TokenEstimator.calculate_token_difference
CalculateTokenDifference ==
    /\ calc = NoCall
    /\ \E estimated \in TokenCounts, actual \in TokenCounts :
         calc' = [op |-> "calculate_token_difference", estimated |-> estimated,
                  actual |-> actual,
                  result |-> calculate_token_difference(estimated, actual)]
    /\ UNCHANGED << tidy_vars, pdf_vars >>

\* the expression of main.py:334 and :341 evaluated on a pair of totals
UsageReportPercent ==
    /\ calc = NoCall
    /\ \E estimated \in TokenCounts, actual \in TokenCounts :
         calc' = [op |-> "diff_percent", estimated |-> estimated,
                  actual |-> actual,
                  result |-> diff_percent(estimated, actual)]
    /\ UNCHANGED << tidy_vars, pdf_vars >>

NextEstimator ==
    \/ EstimateImageTokens
    \/ CalculateTokenDifference
    \/ UsageReportPercent

SpecEstimator == InitEstimator /\ [][NextEstimator]_vars

----------------------------------------------------------------------------
(* process_pdf, src/src/main.py:279-346, driving the page requests and
   text_tidy_up *)

\* number of pages of the PDF
MaxPages == 2

\* len(get_interpretation_prompt()), prompt_templates.py:11-24
InterpretationPromptLength == 708

\* prompt_templates.py: get_interpretation_prompt, a fixed text
get_interpretation_prompt == << Run("t", InterpretationPromptLength) >>

\* main.py:30-39, estimate_image_tokens of main.py (the name
\* estimate_image_tokens is taken by the function of TokenEstimator):
\* int((image_tokens + prompt_tokens) * 1.75), 1.75 written as 175/100
main_estimate_image_tokens(detail) ==
    LET image_tokens == IF detail = "high" THEN 525 ELSE 150
        image_prompt_tokens == estimate_tokens_from_string(get_interpretation_prompt)
    IN ((image_tokens + image_prompt_tokens) * 175) \div 100

\* extract_text() of a page that has text
PageText == << Run("p", 100) >>

\* main.py:203-232, what is_page_text_only returns: (True, text) for a text
\* page, (False, text) or (False, "") for the others
PageKinds ==
    { [is_text |-> TRUE, text |-> PageText],
      [is_text |-> FALSE, text |-> PageText],
      [is_text |-> FALSE, text |-> << >>] }

\* a long answer to a page request: two paragraphs, the second over the
\* budget of a chunk
LongText == Join(<< << Run("b", 12003) >>, << Run("c", 32000) >> >>)

\* what a page request comes back with: the outcomes of a cleanup request,
\* and a success whose content is the long answer
PageOutcomes ==
    Outcomes \cup { [Response("int", "str") EXCEPT !.text = LongText] }

\* the decimal digit of a page number
Digit(n) == << "1", "2", "3", "4", "5", "6", "7", "8", "9" >>[n]

\* main.py:100 and :276, the text returned when a page request fails:
\* "Error processing page N: " + str(e)
PageError(n) ==
    Concat(<< Run("t", 22), Run(Digit(n), 1), Run("t", 2) >>, ErrorMessage)

\* main.py:82-100 (interpret_page) and :243-276 (process_text_page): the triple
\* returned for page n.  Every exception of the try block, len(None) of the
\* line of completion_tokens included, ends in the handler.
PageResult(kind, n, o) ==
    IF RaisesAtUsage(o) \/ RaisesAtContent(o) \/ o.content = "none"
    THEN [content |-> PageError(n), estimated |-> 0, actual |-> 0]
    ELSE LET completion_tokens == StrLen(o.text) \div 4
         IN [content |-> o.text,
             estimated |->
                 IF kind.is_text
                 THEN estimate_tokens_from_string(kind.text) + completion_tokens
                 ELSE estimate_tokens_from_string(get_interpretation_prompt)
                      + main_estimate_image_tokens("high") + completion_tokens,
             actual |-> UsageTokens(o)]

\* main.py:102-106, "\n".join of the contents
RECURSIVE JoinLines(_)
JoinLines(cs) ==
    IF cs = << >> THEN << >>
    ELSE IF Len(cs) = 1 THEN Head(cs)
    ELSE Concat(Concat(Head(cs), << Run(NL, 1) >>), JoinLines(Tail(cs)))

combine_page_content(pages_data) ==
    JoinLines([k \in 1..Len(pages_data) |-> pages_data[k].content])

\* mutant of AddTokens: the total is assigned, not added to
AddTokensOverwriting(total, tokens) == tokens

\* main.py:319-320 and :327-328, total += tokens
AddTokens(total, tokens) == total + tokens

\* main.py:281-293, process_pdf up to its loop; text_tidy_up is not called yet
InitPdf ==
    /\ full_document = << >>
    /\ pc = "idle"
    /\ prompt_tokens = 0
    /\ paragraphs = << >>
    /\ pidx = 1
    /\ chunks = << >>
    /\ current_chunk = << >>
    /\ current_chunk_tokens = 0
    /\ chunk_paras = << >>
    /\ i = 1
    /\ processed_chunks = << >>
    /\ total_prompt_tokens = 0
    /\ total_actual_tokens = 0
    /\ requests = << >>
    /\ outcomes = << >>
    /\ result = NoResult
    /\ pdf_pc = "page_loop"
    /\ total_pages \in 0..MaxPages
    /\ page_number = 0
    /\ page_kind = [is_text |-> FALSE, text |-> << >>]
    /\ all_pages_data = << >>
    /\ total_estimated_tokens = 0
    /\ pdf_total_actual_tokens = 0
    /\ page_requests = << >>
    /\ report = << >>
    /\ calc = NoCall

\* main.py:295-316 down to the create() of process_text_page (main.py:246) or
\* interpret_page (main.py:70): the page is classified and its request issued
PageRequest ==
    /\ pdf_pc = "page_loop"
    /\ page_number < total_pages
    /\ \E kind \in PageKinds :
         /\ page_kind' = kind
         /\ page_requests' = Append(page_requests,
                [page |-> page_number + 1, of |-> total_pages,
                 is_text |-> kind.is_text,
                 text |-> IF kind.is_text THEN kind.text ELSE << >>])
    /\ pdf_pc' = "page_wait"
    /\ UNCHANGED << total_pages, page_number, all_pages_data,
                    total_estimated_tokens, pdf_total_actual_tokens, report >>
    /\ UNCHANGED << tidy_vars, calc >>

\* the rest of the page function, and main.py:318-320
PageResponse ==
    /\ pdf_pc = "page_wait"
    /\ \E o \in PageOutcomes :
         LET page_data == PageResult(page_kind, page_number + 1, o)
         IN /\ all_pages_data' = Append(all_pages_data, page_data)
            /\ total_estimated_tokens' =
                   AddTokens(total_estimated_tokens, page_data.estimated)
            /\ pdf_total_actual_tokens' =
                   AddTokens(pdf_total_actual_tokens, page_data.actual)
    /\ page_number' = page_number + 1
    /\ pdf_pc' = "page_loop"
    /\ UNCHANGED << total_pages, page_kind, page_requests, report >>
    /\ UNCHANGED << tidy_vars, calc >>

\* main.py:298, :311 and :63 are outside every try block: is_page_text_only,
\* images[page_number] or the encoding of the image raises, and process_pdf
\* with it, before the request of the page is issued
PageAbort ==
    /\ pdf_pc = "page_loop"
    /\ page_number < total_pages
    /\ pdf_pc' = "raised"
    /\ UNCHANGED << total_pages, page_number, page_kind, all_pages_data,
                    total_estimated_tokens, pdf_total_actual_tokens,
                    page_requests, report >>
    /\ UNCHANGED << tidy_vars, calc >>

\* main.py:323-324, the loop is over: text_tidy_up is called with the
\* combined contents
CallTidyUp ==
    /\ pdf_pc = "page_loop"
    /\ page_number >= total_pages
    /\ full_document' = combine_page_content(all_pages_data)
    /\ pc' = "start"
    /\ pdf_pc' = "tidy"
    /\ UNCHANGED << prompt_tokens, paragraphs, pidx, chunks, current_chunk,
                    current_chunk_tokens, chunk_paras, i, processed_chunks,
                    total_prompt_tokens, total_actual_tokens, requests,
                    outcomes, result >>
    /\ UNCHANGED << total_pages, page_number, page_kind, all_pages_data,
                    total_estimated_tokens, pdf_total_actual_tokens,
                    page_requests, report >>
    /\ UNCHANGED calc

\* main.py:324-346, text_tidy_up has returned: its counts are added and the
\* report is made
PdfReport ==
    /\ pdf_pc = "tidy"
    /\ pc = "done"
    /\ total_estimated_tokens' = AddTokens(total_estimated_tokens, result.estimated)
    /\ pdf_total_actual_tokens' = AddTokens(pdf_total_actual_tokens, result.actual)
    /\ report' = [analysis_diff_percent |-> diff_percent(result.estimated, result.actual),
                  total_diff_percent |->
                      diff_percent(total_estimated_tokens', pdf_total_actual_tokens'),
                  returned |-> << total_estimated_tokens', pdf_total_actual_tokens' >>]
    /\ pdf_pc' = "done"
    /\ UNCHANGED << total_pages, page_number, page_kind, all_pages_data,
                    page_requests >>
    /\ UNCHANGED << tidy_vars, calc >>

\* main.py:324, the exception of text_tidy_up leaves process_pdf
PdfRaise ==
    /\ pdf_pc = "tidy"
    /\ pc = "raised"
    /\ pdf_pc' = "raised"
    /\ UNCHANGED << total_pages, page_number, page_kind, all_pages_data,
                    total_estimated_tokens, pdf_total_actual_tokens,
                    page_requests, report >>
    /\ UNCHANGED << tidy_vars, calc >>

NextPdf ==
    \/ PageRequest
    \/ PageResponse
    \/ PageAbort
    \/ CallTidyUp
    \/ Decide
    \/ SingleRequest
    \/ SingleResponse
    \/ SplitStep
    \/ SplitFinish
    \/ ChunkRequest
    \/ ChunkResponse
    \/ Combine
    \/ PdfReport
    \/ PdfRaise

SpecPdf == InitPdf /\ [][NextPdf]_vars

----------------------------------------------------------------------------
(* Vocabulary of the properties *)

\* the document was routed to the chunked path (Split never returns an empty list)
ChunkedPath == paragraphs # << >>

\* text_tidy_up is on, or returned from, the single request path
SingleShotPath == pc # "start" /\ paragraphs = << >>

\* the chunk list is complete
Partitioned == ChunkedPath /\ pc # "split"

\* text_tidy_up returned or raised
Finished == pc \in {"done", "raised"}

\* s occurs in t as a contiguous substring
IsSubstring(s, t) ==
    \/ s = << >>
    \/ \E a \in 1..Len(t) : \E b \in a..Len(t) :
         LET mid == SubSeq(t, a, b) IN
         /\ Len(mid) = Len(s)
         /\ \A k \in 1..Len(s) : mid[k].c = s[k].c
         /\ \A k \in 2..(Len(s) - 1) : mid[k].n = s[k].n
         /\ IF Len(s) = 1 THEN mid[1].n >= s[1].n
            ELSE /\ mid[1].n >= s[1].n
                 /\ mid[Len(s)].n >= s[Len(s)].n

RECURSIVE SumEstimates(_)
SumEstimates(ps) ==
    IF ps = << >> THEN 0
    ELSE estimate_tokens_from_string(Head(ps)) + SumEstimates(Tail(ps))

OverBudget(text) == estimate_tokens_from_string(text) > MAX_CHUNK_SIZE

\* the handler of the try block ran for this outcome of a chunk request
ChunkFailed(o) == o.kind = "raise" \/ o.usage = "none" \/ o.content = "missing"

\* the handler of the try block ran for this outcome of the single request
SingleFailed(o) == ChunkFailed(o) \/ o.content = "none"

----------------------------------------------------------------------------
(* C1 *)

\* C1: once a document on the chunked path is partitioned, joining the chunks
\* with the paragraph separator gives back the document.
C1_RoundTrip == Partitioned => Join(chunks) = full_document

(* C2 *)

OverBudgetChunks == { k \in 1..Len(chunks) : OverBudget(chunks[k]) }

\* C2 as stated: at most one chunk is estimated over MAX_CHUNK_SIZE, and that
\* chunk is a single paragraph that is over MAX_CHUNK_SIZE on its own.
C2_AtMostOneOversized ==
    Partitioned =>
        /\ Cardinality(OverBudgetChunks) <= 1
        /\ \A k \in OverBudgetChunks :
               /\ Len(chunk_paras[k]) = 1
               /\ OverBudget(chunk_paras[k][1])

\* C2, amended: in every chunk the estimates of its paragraphs sum to at most
\* MAX_CHUNK_SIZE, unless the chunk is a single paragraph that is over
\* MAX_CHUNK_SIZE on its own; any number of chunks may be such paragraphs.
C2_ParagraphSumBound ==
    Partitioned =>
        \A k \in 1..Len(chunks) :
            \/ SumEstimates(chunk_paras[k]) <= MAX_CHUNK_SIZE
            \/ Len(chunk_paras[k]) = 1 /\ OverBudget(chunk_paras[k][1])

\* a partition with a chunk of several paragraphs estimated over the budget
\* (the separators are not counted) and an oversized single paragraph as well
C2_Witness ==
    /\ Partitioned
    /\ \E k \in 1..Len(chunks) :
           /\ Len(chunk_paras[k]) >= 2
           /\ OverBudget(chunks[k])
           /\ SumEstimates(chunk_paras[k]) <= MAX_CHUNK_SIZE
    /\ \E k \in 1..Len(chunks) :
           Len(chunk_paras[k]) = 1 /\ OverBudget(chunk_paras[k][1])

(* C3 *)

\* C3: every chunk holds at least one paragraph, a paragraph over the budget
\* is a chunk of its own, and a document that is one paragraph over the
\* budget gives exactly one chunk and one request.
C3_NoEmptyChunk ==
    Partitioned =>
        /\ \A k \in 1..Len(chunks) : Len(chunk_paras[k]) >= 1
        /\ \A k \in 1..Len(chunks) : \A j \in 1..Len(chunk_paras[k]) :
               OverBudget(chunk_paras[k][j]) => Len(chunk_paras[k]) = 1
        /\ (Len(paragraphs) = 1 /\ OverBudget(paragraphs[1])) =>
               /\ chunks = << paragraphs[1] >>
               /\ Finished => Len(requests) = 1

(* C4 *)

C5_SingleShotFallback ==
    (pc = "done" /\ SingleShotPath /\ SingleFailed(outcomes[1])) =>
        /\ IsSubstring(full_document, result.content)
        /\ StrLen(result.content) > StrLen(full_document)
        /\ result.actual = 0

C5_Witness ==
    /\ pc = "done"
    /\ SingleShotPath
    /\ outcomes = << Raised >>
    /\ Len(full_document) >= 3
    /\ IsSubstring(full_document, result.content)

(* C6 *)

\* C6: text_tidy_up never raises: whatever the requests come back with, it
\* goes on until it returns its triple.
C6_NeverRaises == pc # "raised" /\ (pc # "done" => ENABLED Next)

(* C7 *)

\* C7: the single request path is taken exactly when the estimate of the
\* cleanup prompt around the document is at most MAX_CHUNK_SIZE; it issues
\* one request that carries the whole document and builds no chunks, and the
\* chunked path issues no such request.
C7_Decide ==
    pc # "start" =>
        /\ prompt_tokens = (StrLen(full_document) + StrLen(get_cleanup_prompt(<< >>)))
                               \div CHARS_PER_TOKEN
        /\ SingleShotPath <=> prompt_tokens <= MAX_CHUNK_SIZE
        /\ ChunkedPath <=> prompt_tokens > MAX_CHUNK_SIZE
        /\ SingleShotPath =>
               /\ chunks = << >>
               /\ Len(requests) <= 1
               /\ pc = "done" =>
                    /\ Len(requests) = 1
                    /\ IsSubstring(full_document, requests[1].content)
                    /\ requests[1].part = 0
        /\ ChunkedPath => \A k \in 1..Len(requests) : requests[k].part # 0

\* a document whose prompt is estimated at exactly MAX_CHUNK_SIZE went
\* through the single request
C7_Witness ==
    /\ pc = "done"
    /\ prompt_tokens = MAX_CHUNK_SIZE
    /\ Len(requests) = 1
    /\ requests[1].part = 0
    /\ chunks = << >>

(* C8 *)

\* C8 as stated: a document whose own estimate is at most MAX_CHUNK_SIZE
\* takes the single request path.
C8_DocumentEstimateDecides ==
    (pc # "start" /\ estimate_tokens_from_string(full_document) <= MAX_CHUNK_SIZE)
        => SingleShotPath

\* the tokens of the fixed text of the cleanup prompt, rounded up
PromptOverheadTokens ==
    (StrLen(get_cleanup_prompt(<< >>)) + CHARS_PER_TOKEN - 1) \div CHARS_PER_TOKEN

\* C8, amended: chunks are created only when the estimate of the cleanup
\* prompt around the document exceeds MAX_CHUNK_SIZE; so every document
\* whose own estimate is at most MAX_CHUNK_SIZE less the tokens of the
\* prompt's fixed text takes the single request path, and builds no chunks.
C8_PromptEstimateDecides ==
    pc # "start" =>
        /\ chunks # << >> =>
               estimate_tokens_from_string(get_cleanup_prompt(full_document))
                   > MAX_CHUNK_SIZE
        /\ estimate_tokens_from_string(full_document) + PromptOverheadTokens
               <= MAX_CHUNK_SIZE
             => SingleShotPath /\ chunks = << >>

\* the longest document the amended bound covers returned from the single
\* request path
C8_Witness ==
    /\ pc = "done"
    /\ SingleShotPath
    /\ estimate_tokens_from_string(full_document) + PromptOverheadTokens
           = MAX_CHUNK_SIZE
    /\ StrLen(full_document) % CHARS_PER_TOKEN = CHARS_PER_TOKEN - 1

(* C9 *)

RECURSIVE SuccessfulUsage(_)
\* the usage totals reported by the requests that did not fail
SuccessfulUsage(os) ==
    IF os = << >> THEN 0
    ELSE (IF ChunkFailed(Head(os)) THEN 0
          ELSE IF Head(os).usage = "int" THEN Head(os).total_tokens ELSE 0)
         + SuccessfulUsage(Tail(os))

\* C9: on the chunked path the actual-token total is the sum of the usage
\* totals of the chunk requests that succeeded, failed chunks adding 0.
C9_ActualTokensOnlySuccessful ==
    Partitioned =>
        /\ total_actual_tokens = SuccessfulUsage(outcomes)
        /\ pc = "done" => result.actual = SuccessfulUsage(outcomes)

(* C10 *)

\* C10: on the chunked path the requests issued so far are those of chunks
\* 1, 2, ... in this order, each marked part k of N, one per chunk; a request
\* is issued only when every earlier one has come back; when text_tidy_up
\* ends there were exactly N requests, and the returned text joins the N
\* entries in the order of the chunks.
C10_ChunkRequestOrder ==
    Partitioned =>
        /\ Len(requests) <= Len(chunks)
        /\ \A k \in 1..Len(requests) :
               /\ requests[k].part = k
               /\ requests[k].of = Len(chunks)
               /\ requests[k].content = get_cleanup_prompt(chunks[k])
        /\ Len(outcomes) = IF pc = "chunk_wait" THEN Len(requests) - 1 ELSE Len(requests)
        /\ Finished => Len(requests) = Len(chunks)
        /\ pc = "done" =>
               /\ Len(processed_chunks) = Len(chunks)
               /\ result.content = Join(EntryTexts(processed_chunks))

\* three chunks went through three requests in order, with a failure in the
\* middle, and the result was returned
C10_Witness ==
    /\ pc = "done"
    /\ Len(chunks) = 3
    /\ Len(requests) = 3
    /\ requests[3].part = 3
    /\ ChunkFailed(outcomes[2])
    /\ ~ChunkFailed(outcomes[1])

(* C11 *)

\* a response that carries no usage information: no usage attribute, or a
\* usage that is None
NoUsage(o) == o.kind = "response" /\ o.usage \in {"absent", "none"}

\* C11: a response with content and no usage information is a success: its
\* content is the output of the document or chunk and it counts 0 actual
\* tokens; it is never turned into the fallback.
C11_MissingUsageIsSuccess ==
    /\ (pc = "done" /\ SingleShotPath /\ NoUsage(outcomes[1])
            /\ outcomes[1].content = "str") =>
           result = [content |-> outcomes[1].text, estimated |-> prompt_tokens,
                     actual |-> 0]
    /\ Partitioned =>
           \A k \in 1..Len(outcomes) :
               (NoUsage(outcomes[k]) /\ outcomes[k].content = "str") =>
                   processed_chunks[k] = StrEntry(outcomes[k].text)

(* C12 *)

\* the document of three paragraphs of 3000 tokens each
ScenarioB ==
    Join(<< << Run("b", 12003) >>, << Run("b", 12003) >>, << Run("b", 12003) >> >>)

\* C12: a chunk is closed only in front of a paragraph that would take its
\* running sum strictly over MAX_CHUNK_SIZE, so a paragraph that brings the
\* sum to exactly MAX_CHUNK_SIZE is appended; three paragraphs of 3000 tokens
\* give the chunks [p1, p2] and [p3] and two requests in this order.
C12_GreedyInclusive ==
    Partitioned =>
        /\ \A k \in 1..(Len(chunks) - 1) :
               SumEstimates(chunk_paras[k])
                   + estimate_tokens_from_string(chunk_paras[k + 1][1])
                   > MAX_CHUNK_SIZE
        /\ full_document = ScenarioB =>
               /\ chunk_paras = << << paragraphs[1], paragraphs[2] >>, << paragraphs[3] >> >>
               /\ chunks = << Join(<< paragraphs[1], paragraphs[2] >>), paragraphs[3] >>
               /\ Finished =>
                    /\ Len(requests) = 2
                    /\ requests[1].content = get_cleanup_prompt(chunks[1])
                    /\ requests[2].content = get_cleanup_prompt(chunks[2])

\* the three paragraphs of 3000 tokens went through their two requests, the
\* first chunk summing to exactly MAX_CHUNK_SIZE
C12_Witness ==
    /\ pc = "done"
    /\ full_document = ScenarioB
    /\ Len(paragraphs) = 3
    /\ SumEstimates(chunk_paras[1]) = MAX_CHUNK_SIZE
    /\ Len(requests) = 2

(* C13 *)

RECURSIVE Flatten(_)
\* the lists of a list, one after the other
Flatten(ls) == IF ls = << >> THEN << >> ELSE Head(ls) \o Flatten(Tail(ls))

\* the text holds the separator '\n\n'
HasSeparator(t) == \E k \in 1..Len(t) : t[k].c = NL /\ t[k].n >= 2

\* C13: the paragraphs are the pieces of the document between separators;
\* while the chunks are built, the closed chunks and the current one hold
\* exactly the paragraphs read so far, in order; in the end the chunks'
\* paragraph lists, one after the other, are the paragraph list, and each
\* chunk text splits back into its own paragraphs.
C13_ParagraphPreservation ==
    ChunkedPath =>
        /\ Join(paragraphs) = full_document
        /\ \A k \in 1..Len(paragraphs) : ~HasSeparator(paragraphs[k])
        /\ pc = "split" =>
               Flatten(chunk_paras) \o current_chunk = SubSeq(paragraphs, 1, pidx - 1)
        /\ Partitioned =>
               /\ Flatten(chunk_paras) = paragraphs
               /\ \A k \in 1..Len(chunks) :
                      chunk_paras[k] # << >> => Split(chunks[k]) = chunk_paras[k]

\* a partition into several chunks, one of which holds several paragraphs
C13_Witness ==
    /\ Partitioned
    /\ Len(chunks) >= 2
    /\ \E k \in 1..Len(chunks) : Len(chunk_paras[k]) >= 2
    /\ Flatten(chunk_paras) = paragraphs
    /\ Len(paragraphs) >= 3

(* C17 *)

RECURSIVE SuccessfulEstimates(_, _)
\* the estimates of the chunks whose request did not fail
SuccessfulEstimates(os, cs) ==
    IF os = << >> THEN 0
    ELSE (IF ChunkFailed(Head(os)) THEN 0 ELSE estimate_tokens_from_string(Head(cs)))
         + SuccessfulEstimates(Tail(os), Tail(cs))

\* C17: a failed cleanup request adds 0 to the returned estimate: the single
\* request path returns 0, 0 on failure, the chunked path returns the sum of
\* the estimates of the chunks whose request succeeded, and when every chunk
\* failed it returns the chunks joined, 0, 0.
C17_FailedAddsNoEstimate ==
    /\ (pc = "done" /\ SingleShotPath /\ SingleFailed(outcomes[1])) =>
           result.estimated = 0 /\ result.actual = 0
    /\ (pc = "done" /\ ChunkedPath) =>
           /\ result.estimated = SuccessfulEstimates(outcomes, chunks)
           /\ (\A k \in 1..Len(outcomes) : ChunkFailed(outcomes[k])) =>
                  result = [content |-> Join(chunks), estimated |-> 0, actual |-> 0]

(* C14 *)

\* the nearest integer of n / d, n >= 0, d > 0, a half going to the even side
RoundHalfEven(n, d) ==
    LET q == n \div d
        r == n % d
    IN IF 2 * r < d THEN q
       ELSE IF 2 * r > d THEN q + 1
       ELSE IF q % 2 = 0 THEN q ELSE q + 1

ImageCall == calc.op = "estimate_image_tokens"

\* C14 as stated: the image estimate is the base of the detail level (that of
\* "standard" for an unknown level) times 1.75, rounded.
C14_RoundedProduct ==
    ImageCall =>
        calc.result =
            RoundHalfEven((IF calc.detail = "high" THEN 525 ELSE 150) * 175, 100)

\* C14, amended: the image estimate is the base of the detail level times
\* 1.75 with the fraction cut off: 918 for "high" (918.75) and 262 for
\* "standard" (262.5), and every other level gives what "standard" gives.
C14_TruncatedProduct ==
    ImageCall =>
        /\ calc.detail = "high" =>
               calc.result = 918 /\ 100 * calc.result <= 525 * 175
                                 /\ 525 * 175 < 100 * (calc.result + 1)
        /\ calc.detail # "high" =>
               calc.result = 262 /\ 100 * calc.result <= 150 * 175
                                 /\ 150 * 175 < 100 * (calc.result + 1)

\* the call with "high", where cutting and rounding differ
C14_Witness == ImageCall /\ calc.detail = "high" /\ calc.result = 918

(* C15 *)

\* C15: with an estimate of 0, calculate_token_difference returns (0.0, 0)
\* whatever the actual count, and the percentage of the usage report of
\* process_pdf is 0; no call divides by 0.
C15_ZeroEstimateGuard ==
    /\ calc.op = "calculate_token_difference" =>
           /\ calc.result[1].den # 0
           /\ calc.estimated = 0 => calc.result = << ZeroPercent, 0 >>
    /\ calc.op = "diff_percent" =>
           /\ calc.result.den # 0
           /\ calc.estimated = 0 => calc.result = ZeroPercent

\* the call with estimated = 0 and actual = 50
C15_Witness ==
    /\ calc.op = "calculate_token_difference"
    /\ calc.estimated = 0
    /\ calc.actual = 50
    /\ calc.result = << ZeroPercent, 0 >>

----------------------------------------------------------------------------
(* C16 *)

\* the sum of the estimated counts of the triples of the pages
RECURSIVE PagesEstimated(_)
PagesEstimated(ds) ==
    IF ds = << >> THEN 0 ELSE Head(ds).estimated + PagesEstimated(Tail(ds))

\* the sum of the actual counts of the triples of the pages
RECURSIVE PagesActual(_)
PagesActual(ds) ==
    IF ds = << >> THEN 0 ELSE Head(ds).actual + PagesActual(Tail(ds))

\* process_pdf has added the counts returned by text_tidy_up
CleanupCounted == pdf_pc = "done"

\* the totals are the sums of what the completed page requests returned, plus
\* what the cleanup returned once it is counted; page request k is the
\* request for page k of total_pages; cleanup requests are issued only after
\* every page is complete, for the document made of the page contents alone
TotalsAreSums ==
    pdf_pc # "none" =>
      /\ total_estimated_tokens =
             PagesEstimated(all_pages_data)
             + (IF CleanupCounted THEN result.estimated ELSE 0)
      /\ pdf_total_actual_tokens =
             PagesActual(all_pages_data)
             + (IF CleanupCounted THEN result.actual ELSE 0)
      /\ \A k \in 1..Len(page_requests) :
             page_requests[k].page = k /\ page_requests[k].of = total_pages
      /\ Len(page_requests) \in { Len(all_pages_data), Len(all_pages_data) + 1 }
      /\ Len(page_requests) <= total_pages
      /\ (requests # << >> \/ pc # "idle") =>
             /\ Len(all_pages_data) = total_pages
             /\ Len(page_requests) = total_pages
             /\ full_document = combine_page_content(all_pages_data)

\* a step never lowers a total, and a step that changes a total issues no
\* request and leaves no request unanswered
TotalsStep ==
    /\ total_estimated_tokens' >= total_estimated_tokens
    /\ pdf_total_actual_tokens' >= pdf_total_actual_tokens
    /\ (total_estimated_tokens' # total_estimated_tokens
        \/ pdf_total_actual_tokens' # pdf_total_actual_tokens) =>
           /\ page_requests' = page_requests
           /\ requests' = requests
           /\ Len(page_requests') = Len(all_pages_data')
           /\ Len(requests') = Len(outcomes')

\* C16: at every point of process_pdf the running totals equal the sums of
\* the (estimated, actual) values returned by the page requests completed so
\* far, plus those of the cleanup once process_pdf has counted it; the totals
\* never decrease and change only between requests; the page requests are
\* issued in ascending page order and the cleanup requests after them; which
\* requests are issued is fixed by the pages and their contents, not by the
\* totals.
C16_TokenUsageReport == [] TotalsAreSums /\ [][TotalsStep]_vars

\* a PDF of a text page and an image page, both answered, cleaned up in a
\* single request: 35 + 1415 + 81 estimated tokens and 3 x 50 actual ones
C16_Witness ==
    /\ pdf_pc = "done"
    /\ Len(all_pages_data) = 2
    /\ page_requests[1].is_text /\ ~page_requests[2].is_text
    /\ all_pages_data[1].estimated = 35
    /\ all_pages_data[2].estimated = 1415
    /\ result.estimated = 81
    /\ total_estimated_tokens = 1531
    /\ pdf_total_actual_tokens = 150
    /\ report.returned = << 1531, 150 >>

====
